---- MODULE Spec2Model ----
(***************************************************************************)
(* Model of download.py: the Video object (get_assets, get_vidurl,         *)
(* download), the job function download_vid and the batch runner that      *)
(* maps download_vid over the rows of vid_ids.csv with a thread pool and   *)
(* imap_unordered.                                                         *)
(*                                                                         *)
(* Strings that the code takes apart or puts together (URLs, file names,   *)
(* container names) are sequences of one-character strings.  Python's None *)
(* is the empty tuple and a value x that is not None is <<x>>.             *)
(*                                                                         *)
(* Each thread runs the code between two of its I/O operations (an HTTP    *)
(* GET, a file operation, the hand-over of a result) in one step: RunLocal *)
(* executes the local statements that follow an I/O operation.  The file   *)
(* system is taken to be reliable: open(path, 'wb') succeeds.              *)
(***************************************************************************)
EXTENDS Integers, Sequences, FiniteSets, TLC

VARIABLES
    ids,      \* the (Video_Title, vid_id) rows: ids[j] = [vid_name, vid_id]
    ctor,     \* ctor[j]: the resolution and container arguments of Video()
    web,      \* the embed server: page served for each source page address
    t,        \* t[j]: the thread running job j, with its Video object
    files,    \* the working directory: path -> set of URLs whose body it holds
    taskq,    \* the pool's task queue (jobs not yet taken by a worker)
    outq,     \* the pool's result queue, in completion order
    printed,  \* the lines printed by the loop of the batch runner
    mainpc,   \* position of the batch runner
    calls     \* number of method calls the client of a Video object has made

vars == <<ids, ctor, web, t, files, taskq, outq, printed, mainpc, calls>>

-----------------------------------------------------------------------------
(* Bounds *)

NJobs == 2
MaxAssets == 2
MaxCalls == 3

(* Program constants *)

PoolSize == 14
StatusOK == 200

-----------------------------------------------------------------------------
(* Values *)

None == <<>>
Some(x) == <<x>>
IsNone(o) == Len(o) = 0
Val(o) == o[1]

Range(s) == {s[i] : i \in DOMAIN s}

MP4 == <<"m", "p", "4">>
WEBM == <<"w", "e", "b", "m">>
BIN == <<".", "b", "i", "n">>

baseaddr ==
    <<"h","t","t","p",":","/","/","f","a","s","t",".","w","i","s","t","i","a",
      ".","n","e","t","/","e","m","b","e","d","/","i","f","r","a","m","e","/">>

Resolutions == {"224p", "360p", "720p", "1080p", "4k"}
Containers == {MP4}

FailedMsg == "Failed to get asset information from page.\nCheck video ID."
JsonMsg == "Error loading JSON string"
ErrorMsg(name) == <<"Error downloading", name>>

-----------------------------------------------------------------------------
(* String functions of the Python library, as the code uses them *)

\* s.replace(old, new): every non-overlapping occurrence, left to right.
RECURSIVE Replace(_, _, _)
Replace(s, old, new) ==
    IF Len(s) < Len(old) THEN s
    ELSE IF SubSeq(s, 1, Len(old)) = old
         THEN new \o Replace(SubSeq(s, Len(old) + 1, Len(s)), old, new)
         ELSE <<Head(s)>> \o Replace(Tail(s), old, new)

\* s.rpartition('/')[2]: what follows the last '/', all of s when it has none.
RECURSIVE LastSegment(_)
LastSegment(s) ==
    IF \E i \in DOMAIN s : s[i] = "/"
    THEN LET i == CHOOSE k \in DOMAIN s : s[k] = "/"
         IN  LastSegment(SubSeq(s, i + 1, Len(s)))
    ELSE s

Ext(container) == <<".">> \o container

-----------------------------------------------------------------------------
(* The Video object *)

\* Video.__init__.  name is the vid_name argument with its Python type: a
\* value that is not a str (the NaN of an empty title cell, None) is dropped.
VideoInitKeepsArgs(name, vid_id, resolution, container) ==
    [srcpage    |-> baseaddr \o vid_id,
     vid_name   |-> IF name.type = "str" THEN Some(name.val) ELSE None,
     assets     |-> None,
     vidurl     |-> None,
     resolution |-> resolution,
     container  |-> container]

VideoInit(name, vid_id, resolution, container) ==
    [srcpage    |-> baseaddr \o vid_id,
     vid_name   |-> IF name.type = "str" THEN Some(name.val) ELSE None,
     assets     |-> None,
     vidurl     |-> None,
     resolution |-> IF resolution \in Resolutions THEN resolution ELSE "1080p",
     container  |-> IF container \in Containers THEN container ELSE MP4]

\* A thread before it runs anything; v is its Video object.
Thread(v, pc) ==
    [vid |-> v, call |-> "none", pc |-> pc, stack |-> <<>>, exc |-> "none",
     ret |-> None, caught |-> "none", page |-> None, path |-> None, r |-> 0,
     log |-> <<>>, gets |-> <<>>, nsel |-> 0]

NoVideo ==
    [srcpage |-> <<>>, vid_name |-> None, assets |-> None, vidurl |-> None,
     resolution |-> "", container |-> <<>>]

\* return val: back to the caller's continuation, or out of the outermost call.
Return(c, val) ==
    IF c.stack = <<>>
    THEN [c EXCEPT !.pc = "returned", !.ret = val]
    ELSE [c EXCEPT !.pc = Head(c.stack), !.stack = Tail(c.stack), !.ret = val]

\* An exception raised outside the two try blocks: get_vidurl, download and
\* download_vid have no handler, so it leaves the outermost call.
Raise(c, e) == [c EXCEPT !.pc = "raised", !.exc = e, !.stack = <<>>]

\* Call a method: pc is its first statement, cont the caller's continuation.
Call(c, pc, cont) == [c EXCEPT !.pc = pc, !.stack = <<cont>> \o @]

\* The rows of df that df.loc[...] keeps.
Matches(v) ==
    SelectSeq(Val(v.assets),
              LAMBDA a : a.container = v.container /\ a.display_name = v.resolution)

\* get_vidurl, first statement: fetch the assets when there are none.
GetVidurlEntry(c) ==
    IF IsNone(c.vid.assets) THEN Call(c, "ga_fetch", "gv_select")
    ELSE [c EXCEPT !.pc = "gv_select"]

\* get_vidurl, the selection.  df is None when get_assets stored nothing
\* (df.loc: AttributeError); the DataFrame of an empty list has no columns
\* (df['container']: KeyError).
GetVidurlSelect(c) ==
    LET v == c.vid
        d == [c EXCEPT !.nsel = @ + 1]
    IN  IF IsNone(v.assets) THEN Raise(d, "AttributeError")
        ELSE IF Len(Val(v.assets)) = 0 THEN Raise(d, "KeyError")
        ELSE LET des == Matches(v)
                 w == IF Len(des) = 1
                      THEN [v EXCEPT !.vidurl =
                               Some(Replace(des[1].url, BIN, Ext(v.container)))]
                      ELSE v
             IN  Return([d EXCEPT !.vid = w], w.vidurl)

\* download, first statement, with the check of vidurl left out.
DownloadEntryAlwaysResolves(c) == Call(c, "gv_check", "dl_path")

\* download, first statement: resolve the URL when there is none.
DownloadEntry(c) ==
    IF IsNone(c.vid.vidurl) THEN Call(c, "gv_check", "dl_path")
    ELSE [c EXCEPT !.pc = "dl_path"]

\* The destination path of a Video whose vidurl is set, the name ignored.
DestPathFromUrl(v) ==
    IF IsNone(v.vidurl) THEN <<>> ELSE LastSegment(Val(v.vidurl))

\* The destination path of a Video (vidurl is set when vid_name is None).
DestPath(v) ==
    IF IsNone(v.vid_name) THEN LastSegment(Val(v.vidurl))
    ELSE Val(v.vid_name) \o Ext(v.container)

\* download, the choice of the path.  None.rpartition: AttributeError.
DownloadPath(c) ==
    IF IsNone(c.vid.vid_name) /\ IsNone(c.vid.vidurl)
    THEN Raise(c, "AttributeError")
    ELSE [c EXCEPT !.path = Some(DestPath(c.vid)), !.pc = "dl_get"]

\* download_vid after vid.download(): the result is dropped, None is returned.
DownloadVidReturn(c) == Return(c, None)

LocalPCs == {"dl_check", "gv_check", "gv_select", "dl_path", "dv_ret"}

LocalStep(c) ==
    CASE c.pc = "dl_check"  -> DownloadEntry(c)
      [] c.pc = "gv_check"  -> GetVidurlEntry(c)
      [] c.pc = "gv_select" -> GetVidurlSelect(c)
      [] c.pc = "dl_path"   -> DownloadPath(c)
      [] c.pc = "dv_ret"    -> DownloadVidReturn(c)

\* The thread's statements up to its next I/O operation or its end.
RECURSIVE RunLocal(_)
RunLocal(c) == IF c.pc \in LocalPCs THEN RunLocal(LocalStep(c)) ELSE c

-----------------------------------------------------------------------------
(* The embed server and the inputs *)

U1 == <<"h", "/", "b", ".", "b", "i", "n">>
U2 == <<"h", "/", "c", ".", "b", "i", "n">>
U3 == <<"h", ".", "b", "i", "n", "/", "d", ".", "b", "i", "n">>
U4 == <<"h", "/", "e">>

R1 == [container |-> MP4, display_name |-> "224p", url |-> U1]
R2 == [container |-> MP4, display_name |-> "224p", url |-> U2]
R3 == [container |-> MP4, display_name |-> "1080p", url |-> U3]
R4 == [container |-> WEBM, display_name |-> "1080p", url |-> U4]

Renditions == {R1, R2, R3, R4}

\* What a GET of a source page gives: the request fails, or a page without the
\* W.iframeInit marker, or with a manifest that is not JSON, or with the
\* manifest of an asset list.
NetError == [kind |-> "error", assets |-> <<>>]
NoMarker == [kind |-> "nomarker", assets |-> <<>>]
BadJson == [kind |-> "badjson", assets |-> <<>>]
AssetsPage(l) == [kind |-> "assets", assets |-> l]

AssetLists == UNION {[1..n -> Renditions] : n \in 0..MaxAssets}
Pages == {NoMarker, BadJson} \cup {AssetsPage(l) : l \in AssetLists}
BatchPages ==
    {NoMarker, BadJson, AssetsPage(<<R1>>), AssetsPage(<<R2>>), AssetsPage(<<R3>>),
     AssetsPage(<<R1, R2>>)}

Statuses == {StatusOK, 404}

Ids == {<<"x">>, <<"y">>}
StrName(s) == [type |-> "str", val |-> s]
NaN == [type |-> "float", val |-> <<>>]
Names == {StrName(<<"a">>), NaN}
\* The rows a vid_ids.csv is made of.
Rows ==
    {[vid_name |-> StrName(<<"a">>), vid_id |-> <<"x">>],
     [vid_name |-> StrName(<<"b">>), vid_id |-> <<"y">>],
     [vid_name |-> NaN, vid_id |-> <<"y">>]}
ResolutionArgs == {"224p", "1080p", "480p"}
ContainerArgs == {MP4, WEBM}

-----------------------------------------------------------------------------
(* I/O steps of a Video's methods *)

Job == DOMAIN t
\* The process has not ended on an uncaught exception.
Alive == mainpc # "crashed"

\* get_assets with the page lookup taken to succeed without the marker.
GetAssetsOutcomeNoRaise(v, resp) ==
    CASE resp.kind = "error" ->
           [vid |-> v, msgs |-> <<FailedMsg>>, caught |-> "ConnectionError",
            page |-> None, ret |-> None]
      [] resp.kind = "badjson" ->
           [vid |-> v, msgs |-> <<JsonMsg, FailedMsg>>, caught |-> "ValueError",
            page |-> Some(resp), ret |-> None]
      [] OTHER ->
           [vid |-> [v EXCEPT !.assets = Some(resp.assets)], msgs |-> <<>>,
            caught |-> "none", page |-> Some(resp),
            ret |-> Some(resp.assets)]

\* The body of get_assets on the response resp to its GET: the Video after
\* it, the messages printed, the exception its bare except caught, the page
\* it read and its return value.  A manifest that is not JSON leaves the
\* string in assets, of which pd.DataFrame raises ValueError.
GetAssetsOutcome(v, resp) ==
    CASE resp.kind = "error" ->
           [vid |-> v, msgs |-> <<FailedMsg>>, caught |-> "ConnectionError",
            page |-> None, ret |-> None]
      [] resp.kind = "nomarker" ->
           [vid |-> v, msgs |-> <<FailedMsg>>, caught |-> "AssetNotFoundError",
            page |-> Some(resp), ret |-> None]
      [] resp.kind = "badjson" ->
           [vid |-> v, msgs |-> <<JsonMsg, FailedMsg>>, caught |-> "ValueError",
            page |-> Some(resp), ret |-> None]
      [] resp.kind = "assets" ->
           [vid |-> [v EXCEPT !.assets = Some(resp.assets)], msgs |-> <<>>,
            caught |-> "none", page |-> Some(resp),
            ret |-> Some(resp.assets)]

GetAssetsFetch(j) ==
    /\ Alive
    /\ t[j].pc = "ga_fetch"
    /\ \E neterr \in BOOLEAN :
         LET c == t[j]
             o == GetAssetsOutcome(c.vid, IF neterr THEN NetError
                                          ELSE web[c.vid.srcpage])
             d == [c EXCEPT !.vid = o.vid, !.log = @ \o o.msgs,
                            !.caught = o.caught, !.page = o.page,
                            !.gets = Append(@, c.vid.srcpage)]
         IN  t' = [t EXCEPT ![j] = RunLocal(Return(d, o.ret))]
    /\ UNCHANGED <<ids, ctor, web, files, taskq, outq, printed, mainpc, calls>>

\* download after its GET, with the body written whatever the status.
DownloadResponseAnyStatus(c, fail, status) ==
    IF IsNone(c.vid.vidurl) \/ fail
    THEN Return([c EXCEPT !.log = Append(@, ErrorMsg(c.vid.vid_name)), !.r = 0],
                None)
    ELSE [c EXCEPT !.r = status, !.pc = "dl_open"]

\* download after its GET: the request raised (fail, or the URL is None, of
\* which requests raises MissingSchema), or r holds its status.
DownloadResponse(c, fail, status) ==
    IF IsNone(c.vid.vidurl) \/ fail
    THEN Return([c EXCEPT !.log = Append(@, ErrorMsg(c.vid.vid_name)), !.r = 0],
                None)
    ELSE IF status = StatusOK
         THEN [c EXCEPT !.r = status, !.pc = "dl_open"]
         ELSE Return([c EXCEPT !.r = status], c.vid.vidurl)

DownloadGet(j) ==
    /\ Alive
    /\ t[j].pc = "dl_get"
    /\ \E fail \in BOOLEAN, status \in Statuses :
         LET c == t[j]
             d == IF IsNone(c.vid.vidurl) THEN c
                  ELSE [c EXCEPT !.gets = Append(@, Val(c.vid.vidurl))]
         IN  t' = [t EXCEPT ![j] = RunLocal(DownloadResponse(d, fail, status))]
    /\ UNCHANGED <<ids, ctor, web, files, taskq, outq, printed, mainpc, calls>>

\* open(path, 'wb'): the file exists and is empty.
DownloadOpen(j) ==
    /\ Alive
    /\ t[j].pc = "dl_open"
    /\ files' = (Val(t[j].path) :> {}) @@ files
    /\ t' = [t EXCEPT ![j].pc = "dl_copy"]
    /\ UNCHANGED <<ids, ctor, web, taskq, outq, printed, mainpc, calls>>

\* shutil.copyfileobj and return self.vidurl.
DownloadCopy(j) ==
    /\ Alive
    /\ t[j].pc = "dl_copy"
    /\ files' = [files EXCEPT ![Val(t[j].path)] = @ \cup {Val(t[j].vid.vidurl)}]
    /\ t' = [t EXCEPT ![j] = RunLocal(Return(t[j], t[j].vid.vidurl))]
    /\ UNCHANGED <<ids, ctor, web, taskq, outq, printed, mainpc, calls>>

-----------------------------------------------------------------------------
(* A Video object and a client that calls its methods *)

Idle(c) == c.pc \in {"idle", "returned", "raised"}

ClientCall(j, method, pc) ==
    /\ Idle(t[j])
    /\ calls < MaxCalls
    /\ calls' = calls + 1
    /\ t' = [t EXCEPT ![j] = RunLocal([t[j] EXCEPT !.call = method, !.pc = pc,
                                                  !.exc = "none", !.stack = <<>>])]
    /\ UNCHANGED <<ids, ctor, web, files, taskq, outq, printed, mainpc>>

CallGetAssets(j) == ClientCall(j, "get_assets", "ga_fetch")
CallGetVidurl(j) == ClientCall(j, "get_vidurl", "gv_check")
CallDownload(j) == ClientCall(j, "download", "dl_check")

InitVideo ==
    /\ ids \in [{1} -> [vid_name : Names, vid_id : Ids]]
    /\ ctor \in [{1} -> [resolution : ResolutionArgs, container : ContainerArgs]]
    /\ web \in [{baseaddr \o ids[1].vid_id} -> Pages]
    /\ t = [j \in {1} |->
              Thread(VideoInit(ids[j].vid_name, ids[j].vid_id,
                               ctor[j].resolution, ctor[j].container), "idle")]
    /\ files = <<>>
    /\ taskq = <<>>
    /\ outq = <<>>
    /\ printed = <<>>
    /\ mainpc = "none"
    /\ calls = 0

NextVideo ==
    \/ \E j \in Job : CallGetAssets(j)
    \/ \E j \in Job : CallGetVidurl(j)
    \/ \E j \in Job : CallDownload(j)
    \/ \E j \in Job : GetAssetsFetch(j)
    \/ \E j \in Job : DownloadGet(j)
    \/ \E j \in Job : DownloadOpen(j)
    \/ \E j \in Job : DownloadCopy(j)

SpecVideo == InitVideo /\ [][NextVideo]_vars

-----------------------------------------------------------------------------
(* The batch runner: ThreadPool(14).imap_unordered(download_vid, ids) *)

Running == {j \in Job : t[j].pc \notin {"queued", "finished"}}

\* A free worker takes the next task and runs download_vid(item) up to its
\* first I/O operation: Video(vid_name, vid_id, resolution='224p'), then
\* vid.download().
DownloadVidStart(j) ==
    /\ Alive
    /\ taskq # <<>>
    /\ j = Head(taskq)
    /\ Cardinality(Running) < PoolSize
    /\ taskq' = Tail(taskq)
    /\ LET v == VideoInit(ids[j].vid_name, ids[j].vid_id,
                          ctor[j].resolution, ctor[j].container)
           c == [Thread(v, "dl_check") EXCEPT !.call = "download_vid",
                                              !.stack = <<"dv_ret">>]
       IN  t' = [t EXCEPT ![j] = RunLocal(c)]
    /\ UNCHANGED <<ids, ctor, web, files, outq, printed, mainpc, calls>>

\* The worker hands the outcome of download_vid to the result queue: its
\* return value, or the exception that left it.
Deliver(j) ==
    /\ Alive
    /\ t[j].pc \in {"returned", "raised"}
    /\ outq' = Append(outq, [job |-> j, ok |-> t[j].pc = "returned",
                             value |-> t[j].ret, exc |-> t[j].exc])
    /\ t' = [t EXCEPT ![j].pc = "finished"]
    /\ UNCHANGED <<ids, ctor, web, files, taskq, printed, mainpc, calls>>

\* for url in results: print(url).  The iterator raises the exception of a
\* job that raised, which nothing catches: the traceback is printed and the
\* process ends.  The pool's threads are daemon threads and end with it,
\* wherever they are.
MainNext ==
    /\ mainpc = "iter"
    /\ Len(printed) < Len(outq)
    /\ LET item == outq[Len(printed) + 1]
       IN  IF item.ok
           THEN /\ printed' = Append(printed, item.value)
                /\ UNCHANGED mainpc
           ELSE /\ mainpc' = "crashed"
                /\ UNCHANGED printed
    /\ UNCHANGED <<ids, ctor, web, t, files, taskq, outq, calls>>

\* All results consumed: the total time is printed.
MainDone ==
    /\ mainpc = "iter"
    /\ Len(printed) = Len(ids)
    /\ mainpc' = "done"
    /\ UNCHANGED <<ids, ctor, web, t, files, taskq, outq, printed, calls>>

Init ==
    /\ ids \in [1..NJobs -> Rows]
    /\ ctor = [j \in 1..NJobs |-> [resolution |-> "224p", container |-> MP4]]
    /\ web \in [{baseaddr \o ids[j].vid_id : j \in 1..NJobs} -> BatchPages]
    /\ t = [j \in 1..NJobs |-> Thread(NoVideo, "queued")]
    /\ files = <<>>
    /\ taskq = [j \in 1..NJobs |-> j]
    /\ outq = <<>>
    /\ printed = <<>>
    /\ mainpc = "iter"
    /\ calls = 0

Next ==
    \/ \E j \in Job : DownloadVidStart(j)
    \/ \E j \in Job : GetAssetsFetch(j)
    \/ \E j \in Job : DownloadGet(j)
    \/ \E j \in Job : DownloadOpen(j)
    \/ \E j \in Job : DownloadCopy(j)
    \/ \E j \in Job : Deliver(j)
    \/ MainNext
    \/ MainDone

Spec == Init /\ [][Next]_vars

-----------------------------------------------------------------------------
(* Properties *)

Ended(c) == c.pc \in {"returned", "raised"}

\* The number of renditions of the asset list l with the given container and
\* display name.
MatchCount(l, container, resolution) ==
    Cardinality({k \in DOMAIN l : /\ l[k].container = container
                                  /\ l[k].display_name = resolution})

\* The only rendition of l with the given container and display name.
TheMatch(l, container, resolution) ==
    l[CHOOSE k \in DOMAIN l : /\ l[k].container = container
                              /\ l[k].display_name = resolution]

\* C1: in a batch run no failure of a job raises an exception out of
\* download_vid to the batch runner: no job ends by an exception and the
\* batch runner is never ended by one.
C1_NoFailureLeavesJob ==
    /\ \A j \in Job : t[j].pc # "raised" /\ t[j].exc = "none"
    /\ \A k \in DOMAIN outq : outq[k].ok
    /\ mainpc # "crashed"

\* The destination of job j, from its row: <name>.mp4, or without a name the
\* last path segment of the URL it resolved.
ExpectedDest(j) ==
    IF ids[j].vid_name.type = "str"
    THEN ids[j].vid_name.val \o <<".", "m", "p", "4">>
    ELSE LastSegment(Val(t[j].vid.vidurl))

ValidJob(j) ==
    LET page == web[baseaddr \o ids[j].vid_id]
    IN  /\ page.kind = "assets"
        /\ MatchCount(page.assets, MP4, "224p") = 1
        /\ t[j].r = 200

C2_Valid ==
    /\ \A j \in Job : ValidJob(j)
    /\ \A i, j \in Job : i # j => ExpectedDest(i) # ExpectedDest(j)

\* C2: when the batch runner has finished a batch of valid jobs (each manifest
\* has exactly one mp4/224p rendition, each download GET returned 200) with
\* pairwise distinct destination names, every job's destination file exists
\* and holds the body of the job's URL, whatever the interleaving of the
\* threads was.  (Stated without asking the identifiers to be distinct.)
C2_AllFilesExist ==
    (mainpc = "done" /\ C2_Valid) =>
        \A j \in Job : /\ ExpectedDest(j) \in DOMAIN files
                       /\ Val(t[j].vid.vidurl) \in files[ExpectedDest(j)]

\* A finished batch of valid jobs whose second job completed first.
C2_Witness ==
    /\ mainpc = "done"
    /\ C2_Valid
    /\ outq[1].job = 2
    /\ \E j \in Job : ids[j].vid_name.type # "str"

\* The URL u with the suffix '.bin' replaced by the extension of container.
SuffixReplaced(u, container) ==
    IF Len(u) >= 4 /\ SubSeq(u, Len(u) - 3, Len(u)) = <<".", "b", "i", "n">>
    THEN SubSeq(u, 1, Len(u) - 4) \o <<".">> \o container
    ELSE u

\* C3: when exactly one rendition of the asset list has the job's container
\* and resolution, get_vidurl returns and stores that rendition's URL with the
\* suffix '.bin' replaced by '.<container>' and the rest of the URL unchanged.
C3_SuffixReplacedOnly ==
    \A j \in Job :
        LET c == t[j] IN
        (/\ c.call = "get_vidurl"
         /\ Ended(c)
         /\ ~IsNone(c.vid.assets)
         /\ MatchCount(Val(c.vid.assets), c.vid.container, c.vid.resolution) = 1)
        => LET m == TheMatch(Val(c.vid.assets), c.vid.container, c.vid.resolution)
           IN  /\ c.pc = "returned"
               /\ c.ret = Some(SuffixReplaced(m.url, c.vid.container))
               /\ c.vid.vidurl = c.ret

\* C4: on every asset list, the empty one included, with zero or with two or
\* more renditions of the job's container and resolution, get_vidurl returns
\* None, raises nothing and leaves vidurl unset.
C4_UnmatchedReturnsNothing ==
    \A j \in Job :
        LET c == t[j] IN
        (/\ c.call = "get_vidurl"
         /\ Ended(c)
         /\ ~IsNone(c.vid.assets)
         /\ MatchCount(Val(c.vid.assets), c.vid.container, c.vid.resolution) # 1)
        => /\ c.pc = "returned"
           /\ c.exc = "none"
           /\ IsNone(c.ret)
           /\ IsNone(c.vid.vidurl)

C6_PopulatedDownloadOnlyDownloads ==
    [][\A j \in Job :
         (/\ t'[j].call = "download"
          /\ ~IsNone(t[j].vid.assets)
          /\ ~IsNone(t[j].vid.vidurl))
         => /\ t'[j].vid = t[j].vid
            /\ t'[j].nsel = t[j].nsel
            /\ \/ t'[j].gets = t[j].gets
               \/ t'[j].gets = Append(t[j].gets, Val(t[j].vid.vidurl))]_vars

\* download() has returned a second time: two GETs of vidurl, one GET of the
\* source page, one selection.
C6_Witness ==
    \E j \in Job :
        LET c == t[j] IN
        /\ c.call = "download"
        /\ c.pc = "returned"
        /\ ~IsNone(c.vid.vidurl)
        /\ Cardinality({i \in DOMAIN c.gets : c.gets[i] = Val(c.vid.vidurl)}) = 2
        /\ Cardinality({i \in DOMAIN c.gets : c.gets[i] = c.vid.srcpage}) = 1
        /\ c.nsel = 1

\* C7: the batch runner prints one line per completed job, in completion
\* order, and the line of a job is the URL the job resolved (None only when
\* it resolved none).
C7_PrintsResolvedUrl ==
    \A k \in DOMAIN printed :
        /\ k \in DOMAIN outq
        /\ printed[k] = t[outq[k].job].vid.vidurl

\* C8, the GET of download(): when the request raises, the message is logged,
\* None is returned and no file is touched; on status 200 the file is opened;
\* on any other status nothing is written or logged, nothing is raised and
\* vidurl is returned.
C8_AfterGet(j) ==
    (t[j].pc = "dl_get" /\ t'[j] # t[j]) =>
        LET c == t[j]
            d == t'[j]
        IN  /\ d.r = 0 =>
                  /\ d.pc = "returned"
                  /\ d.exc = "none"
                  /\ IsNone(d.ret)
                  /\ d.log = Append(c.log, ErrorMsg(c.vid.vid_name))
                  /\ files' = files
            /\ d.r = 200 => d.pc = "dl_open" /\ d.log = c.log
            /\ d.r \notin {0, 200} =>
                  /\ d.pc = "returned"
                  /\ d.exc = "none"
                  /\ d.ret = c.vid.vidurl
                  /\ d.log = c.log
                  /\ files' = files

\* C8: download() writes the destination file if and only if its GET returned
\* status 200: a step changes the files only for a download whose GET
\* returned 200, and a download that returned after a 200 has written its
\* file; a failed request and a status other than 200 are as in C8_AfterGet.
C8_WritesIffStatus200 ==
    /\ [][/\ \A j \in Job : C8_AfterGet(j)
          /\ files' # files =>
                \E j \in Job : t[j].r = 200 /\ t[j].pc \in {"dl_open", "dl_copy"}]_vars
    /\ [](\A j \in Job :
            (t[j].call = "download" /\ t[j].pc = "returned" /\ t[j].r = 200) =>
                /\ Val(t[j].path) \in DOMAIN files
                /\ Val(t[j].vid.vidurl) \in files[Val(t[j].path)])

\* download() returned after a GET with status 200 and the file is there.
C8_Witness ==
    \E j \in Job :
        /\ t[j].call = "download"
        /\ t[j].pc = "returned"
        /\ t[j].r = 200
        /\ Val(t[j].path) \in DOMAIN files

\* C9: a download() whose selection finds zero or several matches in the
\* (non-empty) asset list ends silently, with or without a name: it returns
\* without raising, vidurl stays unset, no download error is printed and no
\* file is written.
C9_UnmatchedEndsSilently ==
    \A j \in Job :
        LET c == t[j] IN
        (/\ c.call = "download"
         /\ Ended(c)
         /\ ~IsNone(c.vid.assets)
         /\ Len(Val(c.vid.assets)) > 0
         /\ MatchCount(Val(c.vid.assets), c.vid.container, c.vid.resolution) # 1)
        => /\ c.pc = "returned"
           /\ c.exc = "none"
           /\ IsNone(c.vid.vidurl)
           /\ ErrorMsg(c.vid.vid_name) \notin Range(c.log)
           /\ DOMAIN files = {}

\* C10: in every state of a Video, resolution is one of 224p, 360p, 720p,
\* 1080p, 4k and container is mp4: a recognized argument of the constructor
\* is kept, any other is replaced by the default (1080p, mp4), and no
\* operation changes either field afterwards.
C10_ResolutionAndContainerRecognized ==
    \A j \in Job :
        LET v == t[j].vid IN
        /\ v.resolution \in {"224p", "360p", "720p", "1080p", "4k"}
        /\ v.container = <<"m", "p", "4">>
        /\ v.resolution = IF ctor[j].resolution \in {"224p", "360p", "720p", "1080p", "4k"}
                          THEN ctor[j].resolution ELSE "1080p"

\* A Video built with an unrecognized resolution and container, after a
\* download() that wrote its file.
C10_Witness ==
    \E j \in Job :
        /\ ctor[j].resolution = "480p"
        /\ ctor[j].container = WEBM
        /\ t[j].call = "download"
        /\ t[j].pc = "returned"
        /\ DOMAIN files # {}

====
